---- MODULE Spec2Model ----
(***************************************************************************)
(* closest-airbnb-finder: the selection of the "best" neighborhood         *)
(* (pkg/api/neighborhood.go) and the HTTP handler that feeds it            *)
(* (cmd/main.go).                                                          *)
(*                                                                         *)
(* Strings are sequences of byte values, so that sort.Strings and          *)
(* strings.Join behave as in Go.  A point is <<ST_X, ST_Y>> in whole        *)
(* degrees; every point of the model lies on the meridian ST_X = 0.        *)
(* Go slices are 0-based, sequences here are 1-based.                      *)
(***************************************************************************)
EXTENDS Integers, Sequences, FiniteSets

\* ------------------------------------------------------------------ bounds
\* Longest candidate sequence handed to FindBestNeighborhood.
MaxLen == 4
\* Latitudes (ST_Y) are 0..MaxLat.
MaxLat == 1
\* Most attractions in one request, most rows one containment query returns.
MaxAttractions == 3
MaxRows == 2

\* ------------------------------------------------------------------ strings
NameA == <<97>>
NameB == <<98>>
NameC == <<99>>
NameAA == <<97, 97>>
NameAB == <<97, 98>>
EmptyString == <<>>

\* Names of the neighborhoods in the store.
Names == {NameA, NameB, NameC}
\* Names used to exercise the cache key.
KeyNames == {NameA, NameB, NameAA, NameAB}

Lats == 0..MaxLat

\* Go's string order: bytewise lexicographic, a proper prefix first.
RECURSIVE StrLess(_, _)
StrLess(s, t) ==
    IF t = <<>> THEN FALSE
    ELSE IF s = <<>> THEN TRUE
    ELSE IF Head(s) # Head(t) THEN Head(s) < Head(t)
    ELSE StrLess(Tail(s), Tail(t))

\* ------------------------------------------------------------------ types
Neighborhood(name, lat, long) ==
    [Name |-> name, Latitude |-> lat, Longitude |-> long]

\* Neighborhood{}: the zero value.
ZeroNeighborhood == Neighborhood(EmptyString, 0, 0)

\* resolveNeighborhoodMultiPolygonsCentroidPoint scans ST_X into coordinates[0] and
\* ST_Y into coordinates[1].
Centroids == {<<0, y>> : y \in Lats}

\* Line 87 with lines 77-78: Latitude is coordinates[0], Longitude is coordinates[1].
MatchedNeighborhood(name, coordinates) ==
    Neighborhood(name, coordinates[1], coordinates[2])

\* The records FindNeighborhoodContainingAttraction can produce from a match.
StoreNeighborhoods == {MatchedNeighborhood(n, c) : n \in Names, c \in Centroids}

\* A Go map: nil or allocated; m is its content.
NilMap == [isNil |-> TRUE, m |-> <<>>]
MadeMap == [isNil |-> FALSE, m |-> <<>>]
MapHas(mp, k) == k \in DOMAIN mp.m
MapPut(mp, k, v) ==
    [isNil |-> FALSE, m |-> [x \in (DOMAIN mp.m) \cup {k} |-> IF x = k THEN v ELSE mp.m[x]]]

\* ------------------------------------------------------------------ state
VARIABLES
    pc,                 \* position of the request
    neighborhoods,      \* handler: neighborhoods; FindBestNeighborhood's argument
    neighborhoodNames,  \* FindBestNeighborhood: the names of highest occurrence
    highestOccurrenceNeighborhoods,
    graph,              \* findNeighborhoodWithLeastDistance...: graph
    distanceCache,      \* findNeighborhoodWithLeastDistance...: distanceCache
    i, j,               \* indices of the outer and inner loop (1-based)
    remainingNeighborhoods,
    providerLog,        \* every call of getDistanceBetweenTwoCoordinates, in order
    result, err,        \* what FindBestNeighborhood returned
    attraction,         \* handler: the attraction being resolved
    nSuccessful, nFailed, \* handler: lengths of Successful/FailedAttractions
    scan,               \* FindNeighborhoodContainingAttraction: its locals
    keyIn, keyOut       \* generateNeighborhoodCacheKey: arguments and results

vars == <<pc, neighborhoods, neighborhoodNames, highestOccurrenceNeighborhoods,
          graph, distanceCache, i, j, remainingNeighborhoods, providerLog,
          result, err, attraction, nSuccessful, nFailed, scan, keyIn, keyOut>>

findVars == <<neighborhoodNames, highestOccurrenceNeighborhoods, graph,
              distanceCache, i, j, remainingNeighborhoods, providerLog, result, err>>
handlerVars == <<attraction, nSuccessful, nFailed, scan>>
keyVars == <<keyIn, keyOut>>

\* ------------------------------------------------------------------ provider
Abs(x) == IF x < 0 THEN -x ELSE x

\* ST_Distance_Sphere of two points given as <<longitude, latitude>>.
SphereDistance(point1, point2) ==
    Abs(point1[1] - point2[1]) + Abs(point1[2] - point2[2])

\* getDistanceBetweenTwoCoordinates: (distance, nil), or (0.0, err) when the
\* query fails.
getDistanceBetweenTwoCoordinates(point1, point2) ==
    { [meters |-> SphereDistance(point1, point2), failed |-> FALSE],
      [meters |-> 0, failed |-> TRUE] }

\* ------------------------------------------------------------------ frequency
\* The frequency table built by findNeighborhoodWithHighestOccurrence.
neighborhoodFrequency(ns) ==
    [n \in {ns[k].Name : k \in DOMAIN ns} |->
        Cardinality({k \in DOMAIN ns : ns[k].Name = n})]

\* The orders in which a range over a map with these keys may visit them.
MapOrders(keys) ==
    {o \in [1..Cardinality(keys) -> keys] :
        \A a, b \in 1..Cardinality(keys) : a # b => o[a] # o[b]}

Swap(h, a, b) == [h EXCEPT ![a] = h[b], ![b] = h[a]]

\* neighborhoodNameFrequencyMinHeap.Less
Less(h, a, b) == h[a].count < h[b].count

\* container/heap up(h, j), p = j + 1.
RECURSIVE HeapUp(_, _)
HeapUp(h, p) ==
    IF p = 1 THEN h
    ELSE LET parent == ((p - 2) \div 2) + 1
         IN IF ~Less(h, p, parent) THEN h
            ELSE HeapUp(Swap(h, p, parent), parent)

\* heap.Push: the method Push appends, then up(h, n-1).
HeapPush(h, x) == HeapUp(Append(h, x), Len(h) + 1)

\* getMaxHeap: every entry of the map pushed, in the order the range visits them.
RECURSIVE PushAll(_, _, _, _)
PushAll(h, m, order, k) ==
    IF k > Len(order) THEN h
    ELSE PushAll(HeapPush(h, [name |-> order[k], count |-> m[order[k]]]), m, order, k + 1)

getMaxHeap(m, order) == PushAll(<<>>, m, order, 1)

\* The loop of findNeighborhoodsWithSameFrequency: h.Pop() is the method Pop, which
\* takes the last element of the slice; h.Len() is read again at every test.
RECURSIVE SameFrequencyLoop(_, _, _, _)
SameFrequencyLoop(h, k, maxCount, names) ==
    IF ~(k < Len(h)) THEN names
    ELSE LET v == h[Len(h)]
             rest == SubSeq(h, 1, Len(h) - 1)
         IN IF v.count < maxCount THEN names
            ELSE SameFrequencyLoop(rest, k + 1, v.count, Append(names, v.name))

findNeighborhoodsWithSameFrequency(h) ==
    IF Len(h) = 0 THEN <<>>
    ELSE IF Len(h) = 1 THEN <<h[1].name>>
    ELSE SameFrequencyLoop(h, 0, 0, <<>>)

findNeighborhoodWithHighestOccurrence(ns, order) ==
    findNeighborhoodsWithSameFrequency(getMaxHeap(neighborhoodFrequency(ns), order))

\* SelectSeq with a predicate on the name.
RECURSIVE WithName(_, _)
WithName(ns, name) ==
    IF ns = <<>> THEN <<>>
    ELSE IF Head(ns).Name = name THEN <<Head(ns)>> \o WithName(Tail(ns), name)
    ELSE WithName(Tail(ns), name)

\* FindBestNeighborhood, lines 176-183.
RECURSIVE FilterByNames(_, _)
FilterByNames(names, ns) ==
    IF names = <<>> THEN <<>>
    ELSE WithName(ns, Head(names)) \o FilterByNames(Tail(names), ns)

\* ------------------------------------------------------------------ graph
composeDifferingNeighborhoodNamesSliceAll(currentNeighborhoodName, allNeighborhoodNames) ==
    allNeighborhoodNames

RECURSIVE composeDifferingNeighborhoodNamesSlice(_, _)
composeDifferingNeighborhoodNamesSlice(currentNeighborhoodName, allNeighborhoodNames) ==
    IF allNeighborhoodNames = <<>> THEN <<>>
    ELSE IF currentNeighborhoodName # Head(allNeighborhoodNames).Name
         THEN <<Head(allNeighborhoodNames)>>
              \o composeDifferingNeighborhoodNamesSlice(currentNeighborhoodName, Tail(allNeighborhoodNames))
         ELSE composeDifferingNeighborhoodNamesSlice(currentNeighborhoodName, Tail(allNeighborhoodNames))

\* hex(md5(s)): taken to be free of collisions on the strings of the model.
Md5Hex(s) == [md5 |-> s]

\* sort.Strings on two elements, then strings.Join(_, "").
SortedJoin(a, b) == IF StrLess(b, a) THEN b \o a ELSE a \o b

generateNeighborhoodCacheKey(neighborhoodName, otherNeighborhoodName) ==
    Md5Hex(SortedJoin(neighborhoodName, otherNeighborhoodName))

\* var graph Graph: no nodes, and edges the nil map.
NewGraph == [nodes |-> <<>>, edges |-> NilMap]

\* graph.edges[name] = append(graph.edges[name], edge): reading a nil map yields
\* nil, assigning to an entry of a nil map panics.
EdgesOf(edges, name) == IF MapHas(edges, name) THEN edges.m[name] ELSE <<>>
AssignPanics(edges) == edges.isNil

\* The sums of findMinDistanceBetweenNodes, lines 381-390: every key of graph.edges is
\* visited once, so the reset of line 385 never finds an entry.
RECURSIVE SumEdges(_)
SumEdges(es) == IF es = <<>> THEN 0 ELSE Head(es).distanceInMeters + SumEdges(Tail(es))

neighborhoodDistanceSum(edges, name) ==
    IF MapHas(edges, name) THEN SumEdges(edges.m[name]) ELSE 0

\* Lines 392-400: minValue is <<>> for +Inf and <<v>> for the number v.
RECURSIVE MinScan(_, _, _, _, _)
MinScan(nodes, edges, k, minValue, best) ==
    IF k > Len(nodes) THEN best
    ELSE LET s == neighborhoodDistanceSum(edges, nodes[k].Name)
         IN IF minValue = <<>> \/ (minValue # <<>> /\ s < minValue[1])
            THEN MinScan(nodes, edges, k + 1, <<s>>, nodes[k])
            ELSE MinScan(nodes, edges, k + 1, minValue, best)

findMinDistanceBetweenNodes(g) ==
    IF Len(g.nodes) = 1 THEN g.nodes[1]
    ELSE MinScan(g.nodes, g.edges, 1, <<>>, ZeroNeighborhood)

\* ------------------------------------------------------------------ FindBestNeighborhood
NoError == "nil"
NoNeighborhoodFoundError == "NoNeighborhoodFoundError"

\* The values the variables of FindBestNeighborhood hold before it is entered.
FindIdle ==
    /\ neighborhoodNames = <<>>
    /\ highestOccurrenceNeighborhoods = <<>>
    /\ graph = NewGraph
    /\ distanceCache = MadeMap
    /\ i = 1
    /\ j = 1
    /\ remainingNeighborhoods = <<>>
    /\ providerLog = <<>>
    /\ result = ZeroNeighborhood
    /\ err = NoError

\* Lines 50-53 of FindNeighborhoodContainingAttraction.
minDistanceInMetersStart == 999999

ScanStart ==
    [matchedNeighborhoods |-> <<>>, minDistanceInMeters |-> minDistanceInMetersStart,
     i |-> 0, bestNeighborhoodIdx |-> 0, rowsRead |-> 0]

NoAttraction == [Latitude |-> 0, Longitude |-> 0]

HandlerIdle ==
    /\ attraction = NoAttraction
    /\ nSuccessful = 0
    /\ nFailed = 0
    /\ scan = ScanStart

KeyIdle ==
    /\ keyIn = <<>>
    /\ keyOut = <<>>

\* Sequences over S of length at most n.
SeqsUpTo(S, n) == UNION {[1..k -> S] : k \in 0..n}

\* FindBestNeighborhood is entered with any candidate sequence of store records.
Init ==
    /\ pc = "start"
    /\ neighborhoods \in SeqsUpTo(StoreNeighborhoods, MaxLen)
    /\ FindIdle
    /\ HandlerIdle
    /\ KeyIdle

\* Lines 170-183, and lines 312-314 of the callee: err of
\* findNeighborhoodWithHighestOccurrence is always nil.
FindHighestOccurrence ==
    /\ pc = "start"
    /\ \E order \in MapOrders(DOMAIN neighborhoodFrequency(neighborhoods)) :
         LET names == findNeighborhoodWithHighestOccurrence(neighborhoods, order)
         IN /\ neighborhoodNames' = names
            /\ highestOccurrenceNeighborhoods' = FilterByNames(names, neighborhoods)
    /\ graph' = NewGraph
    /\ distanceCache' = MadeMap
    /\ i' = 1
    /\ pc' = "outer"
    /\ UNCHANGED <<neighborhoods, j, remainingNeighborhoods, providerLog, result, err>>
    /\ UNCHANGED handlerVars
    /\ UNCHANGED keyVars

\* Lines 316-319: one more neighborhood of the outer loop.
BeginNode ==
    /\ pc = "outer"
    /\ i <= Len(highestOccurrenceNeighborhoods)
    /\ graph' = [graph EXCEPT !.nodes = Append(@, highestOccurrenceNeighborhoods[i])]
    /\ remainingNeighborhoods' =
         composeDifferingNeighborhoodNamesSlice(highestOccurrenceNeighborhoods[i].Name,
                                                highestOccurrenceNeighborhoods)
    /\ j' = 1
    /\ pc' = "inner"
    /\ UNCHANGED <<neighborhoods, neighborhoodNames, highestOccurrenceNeighborhoods,
                   distanceCache, i, providerLog, result, err>>
    /\ UNCHANGED handlerVars
    /\ UNCHANGED keyVars

\* The inner loop as it would run with graph.edges allocated and the distance asked
\* of the provider at every visit, cached or not.
VisitPairNoMemo ==
    /\ pc = "inner"
    /\ j <= Len(remainingNeighborhoods)
    /\ LET neighborhood == highestOccurrenceNeighborhoods[i]
           otherNeighborhood == remainingNeighborhoods[j]
           hashedString == generateNeighborhoodCacheKey(neighborhood.Name, otherNeighborhood.Name)
       IN \E r \in getDistanceBetweenTwoCoordinates(
                            <<neighborhood.Longitude, neighborhood.Latitude>>,
                            <<otherNeighborhood.Longitude, otherNeighborhood.Latitude>>) :
            LET edge == [sourceNode |-> neighborhood, targetNode |-> neighborhood,
                         distanceInMeters |-> r.meters]
            IN /\ distanceCache' = MapPut(distanceCache, hashedString, r.meters)
               /\ providerLog' = Append(providerLog,
                                        [a |-> neighborhood, b |-> otherNeighborhood,
                                         meters |-> r.meters, failed |-> r.failed])
               /\ graph' = [graph EXCEPT !.edges =
                             MapPut(@, neighborhood.Name,
                                    Append(EdgesOf(graph.edges, neighborhood.Name), edge))]
               /\ j' = j + 1
               /\ pc' = "inner"
    /\ UNCHANGED <<neighborhoods, neighborhoodNames, highestOccurrenceNeighborhoods,
                   i, remainingNeighborhoods, result, err>>
    /\ UNCHANGED handlerVars
    /\ UNCHANGED keyVars

\* Lines 320-336: one iteration of the inner loop. The error of the provider is
\* dropped (line 328) and its 0.0 cached; the edge runs from the neighborhood to
\* itself (line 321); the assignment of line 335 panics on the nil map.
VisitPair ==
    /\ pc = "inner"
    /\ j <= Len(remainingNeighborhoods)
    /\ LET neighborhood == highestOccurrenceNeighborhoods[i]
           otherNeighborhood == remainingNeighborhoods[j]
           hashedString == generateNeighborhoodCacheKey(neighborhood.Name, otherNeighborhood.Name)
           ok == MapHas(distanceCache, hashedString)
       IN \E r \in IF ok THEN {[meters |-> distanceCache.m[hashedString], failed |-> FALSE]}
                    ELSE getDistanceBetweenTwoCoordinates(
                            <<neighborhood.Longitude, neighborhood.Latitude>>,
                            <<otherNeighborhood.Longitude, otherNeighborhood.Latitude>>) :
            LET edge == [sourceNode |-> neighborhood, targetNode |-> neighborhood,
                         distanceInMeters |-> r.meters]
            IN /\ distanceCache' = IF ok THEN distanceCache
                                   ELSE MapPut(distanceCache, hashedString, r.meters)
               /\ providerLog' = IF ok THEN providerLog
                                 ELSE Append(providerLog,
                                        [a |-> neighborhood, b |-> otherNeighborhood,
                                         meters |-> r.meters, failed |-> r.failed])
               /\ IF AssignPanics(graph.edges)
                  THEN /\ pc' = "panicked"
                       /\ UNCHANGED <<graph, j>>
                  ELSE /\ graph' = [graph EXCEPT !.edges =
                                     MapPut(@, neighborhood.Name,
                                            Append(EdgesOf(graph.edges, neighborhood.Name), edge))]
                       /\ j' = j + 1
                       /\ pc' = "inner"
    /\ UNCHANGED <<neighborhoods, neighborhoodNames, highestOccurrenceNeighborhoods,
                   i, remainingNeighborhoods, result, err>>
    /\ UNCHANGED handlerVars
    /\ UNCHANGED keyVars

\* The inner loop is over: the next neighborhood of the outer loop.
EndNode ==
    /\ pc = "inner"
    /\ j > Len(remainingNeighborhoods)
    /\ i' = i + 1
    /\ pc' = "outer"
    /\ UNCHANGED <<neighborhoods, neighborhoodNames, highestOccurrenceNeighborhoods,
                   graph, distanceCache, j, remainingNeighborhoods, providerLog, result, err>>
    /\ UNCHANGED handlerVars
    /\ UNCHANGED keyVars

\* Lines 339-345 and 187-191: findMinDistanceBetweenNodes returns a nil error always,
\* so neither line 342 nor line 191 is reached.
ReturnBest ==
    /\ pc = "outer"
    /\ i > Len(highestOccurrenceNeighborhoods)
    /\ result' = findMinDistanceBetweenNodes(graph)
    /\ err' = NoError
    /\ pc' = "done"
    /\ UNCHANGED <<neighborhoods, neighborhoodNames, highestOccurrenceNeighborhoods,
                   graph, distanceCache, i, j, remainingNeighborhoods, providerLog>>
    /\ UNCHANGED handlerVars
    /\ UNCHANGED keyVars

FindNext ==
    \/ FindHighestOccurrence
    \/ BeginNode
    \/ VisitPair
    \/ EndNode
    \/ ReturnBest

Next == FindNext

Spec == Init /\ [][Next]_vars

\* ------------------------------------------------------------------ handler
\* The request is read and decoded; nothing is resolved yet.
HandlerInit ==
    /\ pc = "handler"
    /\ neighborhoods = <<>>
    /\ FindIdle
    /\ HandlerIdle
    /\ KeyIdle

\* main.go lines 47-57: the next attraction of the request is geocoded.
GeocodeAttraction ==
    /\ pc = "handler"
    /\ nSuccessful + nFailed < MaxAttractions
    /\ \E located \in BOOLEAN, lat \in Lats :
         IF ~located
         THEN /\ nFailed' = nFailed + 1
              /\ UNCHANGED <<pc, attraction, nSuccessful>>
         ELSE /\ attraction' = [Latitude |-> lat, Longitude |-> 0]
              /\ nSuccessful' = nSuccessful + 1
              /\ nFailed' = nFailed
              /\ pc' = "query"
    /\ UNCHANGED <<neighborhoods, scan>>
    /\ UNCHANGED findVars
    /\ UNCHANGED keyVars

\* neighborhood.go lines 39-53; on an error main.go line 60 ends the process.
RunQuery ==
    /\ pc = "query"
    /\ \E queryFails \in BOOLEAN :
         IF queryFails
         THEN /\ pc' = "fatal"
              /\ scan' = scan
         ELSE /\ pc' = "rows"
              /\ scan' = ScanStart
    /\ UNCHANGED <<neighborhoods, attraction, nSuccessful, nFailed>>
    /\ UNCHANGED findVars
    /\ UNCHANGED keyVars

\* What one row of the containment query brings: the row, and how the two queries
\* made for it end.
Rows ==
    [scanFails : BOOLEAN, inNeighborhood : BOOLEAN, name : Names,
     centroidFails : BOOLEAN, coordinates : Centroids, distanceFails : BOOLEAN]

\* Lines 55-94 for one row, given the locals; "failed" is the return of line 62.
ScanRow(sc, row, att) ==
    LET read == [sc EXCEPT !.rowsRead = @ + 1]
        attractionsCoordinates == <<att.Longitude, att.Latitude>>
        distanceInMeters == SphereDistance(row.coordinates, attractionsCoordinates)
        appended == [read EXCEPT !.matchedNeighborhoods =
                        Append(@, MatchedNeighborhood(row.name, row.coordinates)),
                     !.i = @ + 1]
    IN IF row.scanFails THEN [failed |-> TRUE, scan |-> read]
       ELSE IF ~row.inNeighborhood \/ row.centroidFails \/ row.distanceFails
            THEN [failed |-> FALSE, scan |-> read]
       ELSE IF distanceInMeters < sc.minDistanceInMeters
            THEN [failed |-> FALSE,
                  scan |-> [appended EXCEPT !.minDistanceInMeters = distanceInMeters,
                                            !.bestNeighborhoodIdx = sc.i]]
       ELSE [failed |-> FALSE, scan |-> appended]

NextRow ==
    /\ pc = "rows"
    /\ scan.rowsRead < MaxRows
    /\ \E row \in Rows :
         LET r == ScanRow(scan, row, attraction)
         IN /\ scan' = r.scan
            /\ pc' = IF r.failed THEN "fatal" ELSE "rows"
    /\ UNCHANGED <<neighborhoods, attraction, nSuccessful, nFailed>>
    /\ UNCHANGED findVars
    /\ UNCHANGED keyVars

\* neighborhood.go lines 96-100: err is the nil error of the query, also when
\* nothing matched.
FoundNeighborhood(sc) ==
    IF Len(sc.matchedNeighborhoods) = 0
    THEN [neighborhood |-> ZeroNeighborhood, err |-> NoError]
    ELSE [neighborhood |-> sc.matchedNeighborhoods[sc.bestNeighborhoodIdx + 1],
          err |-> NoError]

\* rows.Next() is false; main.go lines 58-64.
RowsDone ==
    /\ pc = "rows"
    /\ LET found == FoundNeighborhood(scan)
       IN IF found.err # NoError
          THEN /\ pc' = "fatal"
               /\ UNCHANGED neighborhoods
          ELSE /\ neighborhoods' = Append(neighborhoods, found.neighborhood)
               /\ pc' = "handler"
    /\ UNCHANGED <<attraction, nSuccessful, nFailed, scan>>
    /\ UNCHANGED findVars
    /\ UNCHANGED keyVars

\* main.go line 67: the attractions are exhausted.
CallFindBestNeighborhood ==
    /\ pc = "handler"
    /\ pc' = "start"
    /\ UNCHANGED neighborhoods
    /\ UNCHANGED findVars
    /\ UNCHANGED handlerVars
    /\ UNCHANGED keyVars

\* main.go lines 68-76.
Respond ==
    /\ pc = "done"
    /\ pc' = IF err # NoError THEN "fatal" ELSE "responded"
    /\ UNCHANGED neighborhoods
    /\ UNCHANGED findVars
    /\ UNCHANGED handlerVars
    /\ UNCHANGED keyVars

HandlerNext ==
    \/ GeocodeAttraction
    \/ RunQuery
    \/ NextRow
    \/ RowsDone
    \/ CallFindBestNeighborhood
    \/ FindNext
    \/ Respond

SpecHandler == HandlerInit /\ [][HandlerNext]_vars

\* ------------------------------------------------------------------ cache key
\* Two pairs of distinct names, to be given to generateNeighborhoodCacheKey.
NamePairs == {p \in KeyNames \X KeyNames : p[1] # p[2]}

KeyInit ==
    /\ pc = "key"
    /\ neighborhoods = <<>>
    /\ FindIdle
    /\ HandlerIdle
    /\ keyIn \in NamePairs \X NamePairs
    /\ keyOut = <<>>

ApplyKey ==
    /\ pc = "key"
    /\ keyOut' = <<generateNeighborhoodCacheKey(keyIn[1][1], keyIn[1][2]),
                   generateNeighborhoodCacheKey(keyIn[2][1], keyIn[2][2])>>
    /\ pc' = "keyed"
    /\ UNCHANGED <<neighborhoods, keyIn>>
    /\ UNCHANGED findVars
    /\ UNCHANGED handlerVars

KeyNext == ApplyKey

SpecKey == KeyInit /\ [][KeyNext]_vars

\* ------------------------------------------------------------------ properties
NameSet(ns) == {ns[k].Name : k \in DOMAIN ns}
Occurrences(ns, n) == Cardinality({k \in DOMAIN ns : ns[k].Name = n})

\* The names whose occurrence count is the greatest.
TiedNames(ns) ==
    {n \in NameSet(ns) : \A m \in NameSet(ns) : Occurrences(ns, m) <= Occurrences(ns, n)}

FirstWithName(ns, n) == ns[CHOOSE k \in DOMAIN ns :
                             /\ ns[k].Name = n
                             /\ \A l \in DOMAIN ns : ns[l].Name = n => k <= l]

\* The provider's distance between the centroids of two records.
CentroidDistance(r1, r2) ==
    SphereDistance(<<r1.Longitude, r1.Latitude>>, <<r2.Longitude, r2.Latitude>>)

RECURSIVE SumOver(_, _, _)
SumOver(S, r, ns) ==
    IF S = {} THEN 0
    ELSE LET n == CHOOSE x \in S : TRUE
         IN CentroidDistance(r, FirstWithName(ns, n)) + SumOver(S \ {n}, r, ns)

\* The sum of the distances from r to the other tied names.
TiedDistanceSum(r, ns) == SumOver(TiedNames(ns) \ {r.Name}, r, ns)

\* One record per tied name, the first of each, in the order of the input.
TiedNodes(ns) ==
    SelectSeq([k \in DOMAIN ns |-> [idx |-> k, rec |-> ns[k]]],
              LAMBDA e : /\ e.rec.Name \in TiedNames(ns)
                         /\ \A l \in 1..(e.idx - 1) : ns[l].Name # e.rec.Name)

\* The first of the nodes whose distance sum is the least.
FirstMinimalNode(ns) ==
    LET nodes == TiedNodes(ns)
        k == CHOOSE a \in DOMAIN nodes :
                /\ \A b \in DOMAIN nodes :
                     TiedDistanceSum(nodes[a].rec, ns) <= TiedDistanceSum(nodes[b].rec, ns)
                /\ \A b \in 1..(a - 1) :
                     TiedDistanceSum(nodes[b].rec, ns) > TiedDistanceSum(nodes[a].rec, ns)
    IN nodes[k].rec

Returned == pc = "done"
Ended == pc \in {"done", "panicked"}

\* How often the provider was called for the unordered pair of names {n, m}.
ProviderCalls(n, m) ==
    Cardinality({k \in DOMAIN providerLog :
                    {providerLog[k].a.Name, providerLog[k].b.Name} = {n, m}})

\* C1: when two or more names share the greatest occurrence count, the call returns
\* (it does not panic) a neighborhood of a tied name whose sum of distances to the
\* other tied names is the least among the tied names.
C1_TieReturnsMinimalTied ==
    (Ended /\ Cardinality(TiedNames(neighborhoods)) >= 2) =>
        /\ Returned
        /\ err = NoError
        /\ result.Name \in TiedNames(neighborhoods)
        /\ \A n \in TiedNames(neighborhoods) :
             TiedDistanceSum(result, neighborhoods)
                <= TiedDistanceSum(FirstWithName(neighborhoods, n), neighborhoods)

\* C2: when one name occurs strictly more often than every other name, the call
\* returns a neighborhood of that name.
C2_DominantNameReturned ==
    (Ended /\ Cardinality(TiedNames(neighborhoods)) = 1) =>
        /\ Returned
        /\ err = NoError
        /\ result.Name \in TiedNames(neighborhoods)

\* C3: when every record of a non-empty candidate sequence carries the same name, the
\* call returns a neighborhood of that name with a nil error, and the provider is
\* never called.
C3_SingleNameReturned ==
    (Len(neighborhoods) > 0 /\ Cardinality(NameSet(neighborhoods)) = 1) =>
        /\ providerLog = <<>>
        /\ pc # "panicked"
        /\ Returned => (result.Name \in NameSet(neighborhoods) /\ err = NoError)

C3_Witness ==
    /\ Returned
    /\ Len(neighborhoods) >= 2
    /\ Cardinality(NameSet(neighborhoods)) = 1
    /\ result.Name = neighborhoods[1].Name
    /\ providerLog = <<>>

\* C4: a call with the empty candidate sequence returns a non-nil error; it neither
\* panics nor returns the zero Neighborhood with a nil error.
C4_EmptyInputIsAnError ==
    (Ended /\ neighborhoods = <<>>) => (Returned /\ err # NoError)

\* C5: when the provider fails for a pair of tied neighborhoods, the call returns an
\* error and no neighborhood, and the 0.0 of the failed call is not kept as the
\* distance of the pair.
C5_ProviderFailurePropagates ==
    \A k \in DOMAIN providerLog :
        providerLog[k].failed =>
            /\ ~MapHas(distanceCache,
                       generateNeighborhoodCacheKey(providerLog[k].a.Name, providerLog[k].b.Name))
            /\ Ended => (Returned /\ err # NoError /\ result = ZeroNeighborhood)

\* C6: what a call returns is decided by the candidate sequence and the distances
\* alone: it is the first, in the order of the input, of the tied neighborhoods of
\* least distance sum, whatever the order in which the frequency map is ranged over.
C6_ResultIsFirstMinimal ==
    (Returned /\ neighborhoods # <<>>) => result = FirstMinimalNode(neighborhoods)

\* C7: findNeighborhoodWithHighestOccurrence returns every name of greatest
\* occurrence count, no other name, and no name twice; nothing for the empty input.
C7_HighestOccurrenceIsTiedSet ==
    (pc \in {"outer", "inner", "done", "panicked"}) =>
        /\ {neighborhoodNames[k] : k \in DOMAIN neighborhoodNames} = TiedNames(neighborhoods)
        /\ Len(neighborhoodNames) = Cardinality(TiedNames(neighborhoods))

C9_CandidatesAreMatches ==
    \A k \in DOMAIN neighborhoods :
        /\ neighborhoods[k] # ZeroNeighborhood
        /\ neighborhoods[k] \in StoreNeighborhoods

\* C10: two different unordered pairs of distinct names never get the same cache
\* key, so no pair is served the distance cached for another pair.
C10_KeysOfDifferentPairsDiffer ==
    (pc = "keyed" /\ {keyIn[1][1], keyIn[1][2]} # {keyIn[2][1], keyIn[2][2]}) =>
        keyOut[1] # keyOut[2]

====
